---------------------------- MODULE Spec2Model ----------------------------
(***************************************************************************)
(* A model of lingvatrans.client: the language normaliser                  *)
(* (_normalize_lang), the session lifecycle of Translator (_ensure_session,*)
(* _get_session, close, change_proxy) under its aiorwlock.RWLock(fast=True)*)
(* and the public calls translate, detect and get_languages.               *)
(*                                                                         *)
(* The program runs on one asyncio event loop.  A task runs without        *)
(* interruption until it suspends on an await that cannot complete at once *)
(* (a lock that is not free, a network request, the close of a session).   *)
(* The variable "running" holds the task that is executing; 0 means the    *)
(* event loop is choosing the next task to resume.                         *)
(***************************************************************************)
EXTENDS Integers, Sequences, FiniteSets, TLC

(***************************************************************************)
(* Bounds of the model.                                                    *)
(***************************************************************************)
NTasks == 3
MaxOps == 3
MaxSeqOps == 3
MaxLen == 2

(***************************************************************************)
(* Python strings that the code inspects character by character (language  *)
(* codes and names) are sequences of one-character strings.                *)
(***************************************************************************)
LowerLetters ==
    <<"a","b","c","d","e","f","g","h","i","j","k","l","m",
      "n","o","p","q","r","s","t","u","v","w","x","y","z">>

UpperLetters ==
    <<"A","B","C","D","E","F","G","H","I","J","K","L","M",
      "N","O","P","Q","R","S","T","U","V","W","X","Y","Z">>

\* str.lower() on one character: an upper-case ASCII letter becomes the
\* lower-case letter at the same place of the alphabet, anything else stays.
LowerChar(c) ==
    IF \E i \in 1..26 : UpperLetters[i] = c
    THEN LowerLetters[CHOOSE i \in 1..26 : UpperLetters[i] = c]
    ELSE c

UpperChar(c) ==
    IF \E i \in 1..26 : LowerLetters[i] = c
    THEN UpperLetters[CHOOSE i \in 1..26 : LowerLetters[i] = c]
    ELSE c

\* str.lower()
Lower(s) == [i \in 1..Len(s) |-> LowerChar(s[i])]

s_auto    == <<"a","u","t","o">>
s_en_US   == <<"e","n","_","U","S">>
s_fr_FR   == <<"f","r","_","F","R">>
s_yi_IL   == <<"y","i","_","I","L">>
s_ii_CN   == <<"i","i","_","C","N">>
s_en      == <<"e","n">>
s_fr      == <<"f","r">>
s_yi      == <<"y","i">>
s_ii      == <<"i","i">>
s_english == <<"e","n","g","l","i","s","h">>
s_french  == <<"f","r","e","n","c","h">>
s_yiddish == <<"y","i","d","d","i","s","h">>
s_xx      == <<"x","x">>
s_klingon == <<"t","l","h">>

(***************************************************************************)
(* The language tables of lingvatrans.constants, cut to four languages.    *)
(* The name table holds the two-letter name "yi" (Nuosu), which is also    *)
(* the alpha-1 code of Yiddish, so that one alias is in two tables.        *)
(***************************************************************************)
LANGUAGES == {s_en_US, s_fr_FR, s_yi_IL, s_ii_CN}

ALPHA1_TO_FULL ==
    (s_en :> s_en_US) @@ (s_fr :> s_fr_FR) @@ (s_yi :> s_yi_IL) @@ (s_ii :> s_ii_CN)

LANGCODES ==
    (s_english :> s_en_US) @@ (s_french :> s_fr_FR) @@ (s_yiddish :> s_yi_IL)
        @@ (s_yi :> s_ii_CN)

\* The outcome of a call that raised ValueError in _normalize_lang.
Unresolved == <<"!","V","a","l","u","e","E","r","r","o","r">>

\* A plausible slip: the name table is consulted before the alpha-1 table.
NormalizeNameFirst(code) ==
    IF code = s_auto THEN s_auto
    ELSE IF code \in LANGUAGES THEN code
    ELSE IF Lower(code) \in DOMAIN LANGCODES THEN LANGCODES[Lower(code)]
    ELSE IF code \in DOMAIN ALPHA1_TO_FULL THEN ALPHA1_TO_FULL[code]
    ELSE Unresolved

\* _normalize_lang(code): the canonical code, or Unresolved for ValueError.
_normalize_lang(code) ==
    IF code = s_auto THEN s_auto
    ELSE IF code \in LANGUAGES THEN code
    ELSE IF code \in DOMAIN ALPHA1_TO_FULL THEN ALPHA1_TO_FULL[code]
    ELSE IF Lower(code) \in DOMAIN LANGCODES THEN LANGCODES[Lower(code)]
    ELSE Unresolved


(***************************************************************************)
(* Values.                                                                 *)
(***************************************************************************)
Tasks == 1..NTasks

\* A proxy URL is its scheme (a string of characters) and the rest of it.
\* NoProxy stands for Python's None.
NoProxy    == [scheme |-> <<>>, host |-> "None"]
HttpProxy  == [scheme |-> <<"h","t","t","p">>, host |-> "p1"]
HttpProxy2 == [scheme |-> <<"h","t","t","p","s">>, host |-> "p2"]
SocksProxy == [scheme |-> <<"s","o","c","k","s","5">>, host |-> "s1"]

NoAuth   == "None"
UserAuth == "user:secret"

\* str.startswith(prefix) on a proxy URL: the prefixes the code asks for hold
\* letters and digits only, so the answer is decided within the scheme.
StartsWith(url, prefix) ==
    /\ Len(url.scheme) >= Len(prefix)
    /\ SubSeq(url.scheme, 1, Len(prefix)) = prefix

s_socks5 == <<"s","o","c","k","s","5">>
s_socks4 == <<"s","o","c","k","s","4">>

\* proxy.startswith('socks5') or proxy.startswith('socks4')
IsSocksUrl(url) == StartsWith(url, s_socks5) \/ StartsWith(url, s_socks4)

\* The mock remote service: the translation of each text.
MockTranslation(text) ==
    CASE text = "a" -> "A"
      [] text = "b" -> "B"
      [] text = "c" -> "C"
      [] OTHER -> "?"

\* The fields of a JSON response body that the client reads.  A field that
\* the body does not carry is "absent"; err may also be JSON null.
Data(err, result, from, sl, score) ==
    [err |-> err, result |-> result, from |-> from, sourceLanguage |-> sl,
     score |-> score]

\* A string field that the body does not carry.
AbsentStr == <<"absent">>

NoData == Data("absent", "absent", AbsentStr, AbsentStr, "absent")

\* if data.get('err'): an absent field gives None, and None and the empty
\* string are false.
HasErr(data) == data.err \notin {"absent", "null", ""}

VARIABLES
    raise_exception,        \* self.raise_exception
    _session,               \* self._session: 0 is None, else a session id
    connector,              \* self.connector: 0 is None, else a connector id
    proxy,                  \* self.proxy
    proxy_auth,             \* self.proxy_auth
    _proxy_url,             \* self._proxy_url
    _use_proxy_connector,   \* self._use_proxy_connector
    live,                   \* the sessions (and their connectors) not closed
    sinfo,                  \* what each session ever constructed was built with
    _r_state,               \* rwlock: number of readers holding the lock
    _w_state,               \* rwlock: 1 while a writer holds the lock
    _write_waiters,         \* rwlock: the tasks waiting to write, in order
    _read_waiters,          \* rwlock: the tasks waiting to read
    running,                \* the task that is executing, 0 for the event loop
    pc,                     \* where each task stands
    call,                   \* the call each task is making, with its arguments
    out,                    \* the results the call has collected so far
    exc,                    \* the exception the call raised, "" for none
    req,                    \* the request each task has in flight
    ops,                    \* the number of calls started (counted up to a cap)
    scope,                  \* where the caller stands in "async with client"
    lang_in,                \* normaliser check: the input
    lang_out                \* normaliser check: the output

cfgVars  == <<proxy, proxy_auth, _proxy_url, _use_proxy_connector>>
sessVars == <<_session, connector, live, sinfo>>
lockVars == <<_r_state, _w_state, _write_waiters, _read_waiters>>
normVars == <<lang_in, lang_out>>
vars == <<raise_exception, cfgVars, sessVars, lockVars, running, pc, call, out,
          exc, req, ops, scope, normVars>>

NoCall == [op |-> "none", list |-> FALSE, items |-> <<>>, i |-> 0,
           dest |-> <<>>, src |-> <<>>, proxy |-> NoProxy, auth |-> NoAuth,
           sent |-> 0]

\* The request of a task: the session it was issued on, the per-request proxy
\* settings it was given, its method, its form fields (to, text, from) and
\* its platform query parameter, and the response once that has arrived.
NoReq == [sid |-> 0, proxy |-> NoProxy, proxy_auth |-> NoAuth,
          method |-> "", to |-> AbsentStr, text |-> "", from |-> AbsentStr,
          platform |-> "absent", status |-> 0, data |-> NoData]

ReaderOps == {"translate", "detect", "get_languages"}


(***************************************************************************)
(* Sessions.  A session owns its connector (connector_owner=True), and     *)
(* aiohttp reports a session closed exactly when its connector is closed,  *)
(* so session n and connector n are open together: n \in live.             *)
(***************************************************************************)
SessionClosed(sid) == sid \notin live

\* A plausible slip: a new session is built whatever the state of the old one.
NeedsSessionAlways == TRUE

\* if self._session is None or self._session.closed:
NeedsSession == _session = 0 \/ SessionClosed(_session)

\* The id of the next session (and connector) to be constructed.
NewId == Len(sinfo) + 1

\* aiohttp.ClientSession(connector=..., connector_owner=True, ...): what the
\* session is built with, and the per-request proxy settings in force then.
SessionRecord(kind, p, a) == [kind |-> kind, proxy |-> p, proxy_auth |-> a]

(***************************************************************************)
(* aiorwlock.RWLock(fast=True).  With fast=True an acquisition that can    *)
(* be granted at once does not yield to the event loop.                    *)
(***************************************************************************)
\* acquire_read: no writer waits, no writer holds the lock
CanAcquireRead == _write_waiters = <<>> /\ _r_state >= 0 /\ _w_state = 0

\* acquire_write: nobody reads, nobody writes
CanAcquireWrite == _r_state = 0 /\ _w_state = 0

\* A plausible slip: a release wakes the waiting readers and never a writer.
WakeUpReadersOnly(r, w) ==
    IF r = 0 /\ w = 0 /\ _read_waiters # {}
    THEN [r |-> Cardinality(_read_waiters), w |-> 0, ww |-> _write_waiters,
          rw |-> {}, woken |-> _read_waiters]
    ELSE [r |-> r, w |-> w, ww |-> _write_waiters, rw |-> _read_waiters,
          woken |-> {}]

\* _wake_up after a release that leaves r readers and w writers: with the
\* lock free the first waiting writer is woken, else all waiting readers.
WakeUp(r, w) ==
    IF r = 0 /\ w = 0 /\ _write_waiters # <<>>
    THEN [r |-> 0, w |-> 1, ww |-> Tail(_write_waiters), rw |-> _read_waiters,
          woken |-> {Head(_write_waiters)}]
    ELSE IF r = 0 /\ w = 0 /\ _read_waiters # {}
    THEN [r |-> Cardinality(_read_waiters), w |-> 0, ww |-> _write_waiters,
          rw |-> {}, woken |-> _read_waiters]
    ELSE [r |-> r, w |-> w, ww |-> _write_waiters, rw |-> _read_waiters,
          woken |-> {}]

\* The statement at which each writer continues once it holds the lock.
CriticalSection(op) ==
    CASE op \in {"close", "__aexit__"} -> "close_cs"
      [] op = "change_proxy" -> "cp_cs"
      [] OTHER -> "ensure_cs"

\* Where a woken waiter continues.
Resume(u) == IF pc[u] = "wait_r" THEN "post" ELSE CriticalSection(call[u].op)

\* Task t releases its side of the lock and goes on to statement next.
Release(t, r, w, next) ==
    LET k == WakeUp(r, w) IN
    /\ _r_state' = k.r
    /\ _w_state' = k.w
    /\ _write_waiters' = k.ww
    /\ _read_waiters' = k.rw
    /\ pc' = [u \in Tasks |->
                IF u = t THEN next
                ELSE IF u \in k.woken THEN Resume(u)
                ELSE pc[u]]

\* The event loop runs one task at a time.
Runs(t) == running = t \/ running = 0


(***************************************************************************)
(* Construction.                                                           *)
(***************************************************************************)
\* aiohttp.BasicAuth(proxy_auth[0], proxy_auth[1]) if proxy_auth else None
BasicAuth(a) == a

\* The connection strategy for a proxy argument, as __init__ and change_proxy
\* both compute it: a SOCKS URL gives a tunnelling connector and no
\* per-request proxy, any other URL a plain connector and a per-request proxy.
ConfigFor(p, a) ==
    IF p # NoProxy /\ IsSocksUrl(p)
    THEN [kind |-> "socks", proxy |-> NoProxy, proxy_auth |-> NoAuth, use |-> TRUE]
    ELSE IF p # NoProxy
    THEN [kind |-> "tcp", proxy |-> p, proxy_auth |-> BasicAuth(a), use |-> FALSE]
    ELSE [kind |-> "tcp", proxy |-> NoProxy, proxy_auth |-> NoAuth, use |-> FALSE]

\* Translator.__init__(raise_exception=r, proxy=p, proxy_auth=a)
Construct(r, p, a) ==
    LET c == ConfigFor(p, a) IN
    /\ raise_exception = r
    /\ proxy = c.proxy
    /\ proxy_auth = c.proxy_auth
    /\ _proxy_url = p
    /\ _use_proxy_connector = c.use
    /\ connector = 1
    /\ _session = 1
    /\ live = {1}
    /\ sinfo = <<SessionRecord(c.kind, c.proxy, c.proxy_auth)>>
    /\ _r_state = 0
    /\ _w_state = 0
    /\ _write_waiters = <<>>
    /\ _read_waiters = {}
    /\ running = 0
    /\ pc = [t \in Tasks |-> "idle"]
    /\ call = [t \in Tasks |-> NoCall]
    /\ out = [t \in Tasks |-> <<>>]
    /\ exc = [t \in Tasks |-> ""]
    /\ req = [t \in Tasks |-> NoReq]
    /\ scope = "out"

(***************************************************************************)
(* The calls.  A call starts when the event loop picks the calling task.   *)
(***************************************************************************)
\* A plausible slip: the languages are not resolved before the session work.
ItemStartNoNormalize(op) == "ensure"

\* Where the work on one text starts: translate normalises first.
ItemStart(op) == IF op = "translate" THEN "norm" ELSE "ensure"

\* A plausible slip: close works on the session without the writer lock.
CloseEntryNoLock == "close_cs"

\* close starts by taking the writer lock.
CloseEntry == "close"

\* A plausible slip: change_proxy works on the session without the writer lock.
ChangeProxyEntryNoLock == "cp_cs"

\* change_proxy starts by taking the writer lock.
ChangeProxyEntry == "cp"

\* async with client: the statement awaits __aenter__ on entry, and
\* __aexit__ when its body has returned or has raised.
ScopeAtCall(op) ==
    CASE op = "__aenter__" -> "entering"
      [] op = "__aexit__" /\ scope = "raised" -> "exit_raised"
      [] op = "__aexit__" -> "exit_ok"
      [] OTHER -> scope

\* Where the caller stands once a call has ended with exception e ("" for
\* none): __aenter__ returns self and the body starts, a call of the body
\* that raises ends the body, __aexit__ returns None and the scope is left.
ScopeAfterCall(op, e) ==
    CASE op = "__aenter__" /\ e = "" -> "in"
      [] op = "__aenter__" -> "out"
      [] op = "__aexit__" /\ scope = "exit_raised" -> "left_raised"
      [] op = "__aexit__" -> "left_ok"
      [] scope = "in" /\ e # "" -> "raised"
      [] OTHER -> scope

StartCall(t, c, first) ==
    /\ running = 0
    /\ pc[t] = "idle"
    /\ call' = [call EXCEPT ![t] = c]
    /\ pc' = [pc EXCEPT ![t] = first]
    /\ running' = IF first = "done" THEN 0 ELSE t
    /\ ops' = IF ops < MaxOps + MaxSeqOps THEN ops + 1 ELSE ops
    /\ scope' = ScopeAtCall(c.op)
    /\ UNCHANGED <<raise_exception, cfgVars, sessVars, lockVars, out, exc, req,
                   normVars>>

\* translate(text, dest, src); a list of no texts returns [] at once.
CallTranslate(t, isList, items, dest, src) ==
    StartCall(t, [NoCall EXCEPT !.op = "translate", !.list = isList,
                                !.items = items, !.i = 1, !.dest = dest,
                                !.src = src],
              IF isList /\ items = <<>> THEN "done" ELSE ItemStart("translate"))

\* detect(text)
CallDetect(t, isList, items) ==
    StartCall(t, [NoCall EXCEPT !.op = "detect", !.list = isList,
                                !.items = items, !.i = 1],
              IF isList /\ items = <<>> THEN "done" ELSE ItemStart("detect"))

\* get_languages()
CallGetLanguages(t) ==
    StartCall(t, [NoCall EXCEPT !.op = "get_languages", !.items = <<"">>,
                                !.i = 1], ItemStart("get_languages"))

\* close()
CallClose(t) == StartCall(t, [NoCall EXCEPT !.op = "close"], CloseEntry)

\* A plausible slip: __aexit__ returns without closing.
AexitEntrySkipsClose == "done"

\* __aexit__ awaits self.close().
AexitEntry == CloseEntry

\* __aenter__(): await self._ensure_session(); return self
CallAenter(t) ==
    StartCall(t, [NoCall EXCEPT !.op = "__aenter__"], "ensure")

\* __aexit__(exc_type, exc_val, exc_tb): await self.close()
CallAexit(t) ==
    StartCall(t, [NoCall EXCEPT !.op = "__aexit__"], AexitEntry)

\* change_proxy(proxy, proxy_auth)
CallChangeProxy(t, p, a) ==
    StartCall(t, [NoCall EXCEPT !.op = "change_proxy", !.proxy = p, !.auth = a],
              ChangeProxyEntry)

\* dest_code = _normalize_lang(dest); src_code = _normalize_lang(src):
\* ValueError leaves the call before anything else is done.
Normalize(t) ==
    /\ Runs(t)
    /\ pc[t] = "norm"
    /\ IF _normalize_lang(call[t].dest) = Unresolved
          \/ _normalize_lang(call[t].src) = Unresolved
       THEN /\ pc' = [pc EXCEPT ![t] = "done"]
            /\ exc' = [exc EXCEPT ![t] = "ValueError"]
            /\ out' = [out EXCEPT ![t] = <<>>]
            /\ running' = 0
       ELSE /\ pc' = [pc EXCEPT ![t] = "ensure"]
            /\ running' = t
            /\ UNCHANGED <<exc, out>>
    /\ UNCHANGED <<raise_exception, cfgVars, sessVars, lockVars, call, req, ops,
                   normVars, scope>>

\* async with self.rwlock.writer_lock: in _ensure_session, close, change_proxy
AcquireWrite(t) ==
    /\ Runs(t)
    /\ pc[t] \in {"ensure", "close", "cp"}
    /\ IF CanAcquireWrite
       THEN /\ _w_state' = _w_state + 1
            /\ pc' = [pc EXCEPT ![t] = CriticalSection(call[t].op)]
            /\ running' = t
            /\ UNCHANGED _write_waiters
       ELSE /\ _write_waiters' = Append(_write_waiters, t)
            /\ pc' = [pc EXCEPT ![t] = "wait_w"]
            /\ running' = 0
            /\ UNCHANGED _w_state
    /\ UNCHANGED <<raise_exception, cfgVars, sessVars, _r_state, _read_waiters,
                   call, out, exc, req, ops, normVars, scope>>

\* What follows await self._ensure_session(): __aenter__ returns, the other
\* calls go on to _get_session.
AfterEnsure(op) == IF op = "__aenter__" THEN "done" ELSE "get"

\* The body of _ensure_session and the release of the writer lock.
EnsureSession(t) ==
    /\ Runs(t)
    /\ pc[t] = "ensure_cs"
    /\ IF NeedsSession
       THEN /\ connector' = NewId
            /\ _session' = NewId
            /\ live' = live \cup {NewId}
            /\ sinfo' = Append(sinfo, SessionRecord("tcp", proxy, proxy_auth))
       ELSE UNCHANGED sessVars
    /\ Release(t, _r_state, _w_state - 1, AfterEnsure(call[t].op))
    /\ running' = IF AfterEnsure(call[t].op) = "done" THEN 0 ELSE t
    /\ UNCHANGED <<raise_exception, cfgVars, call, out, exc, req, ops, normVars, scope>>

\* _get_session: async with self.rwlock.reader_lock
AcquireRead(t) ==
    /\ Runs(t)
    /\ pc[t] = "get"
    /\ IF CanAcquireRead
       THEN /\ _r_state' = _r_state + 1
            /\ pc' = [pc EXCEPT ![t] = "post"]
            /\ running' = t
            /\ UNCHANGED _read_waiters
       ELSE /\ _read_waiters' = _read_waiters \cup {t}
            /\ pc' = [pc EXCEPT ![t] = "wait_r"]
            /\ running' = 0
            /\ UNCHANGED _r_state
    /\ UNCHANGED <<raise_exception, cfgVars, sessVars, _w_state, _write_waiters,
                   call, out, exc, req, ops, normVars, scope>>

\* A plausible slip: the from field is sent whatever src resolves to.
PayloadAlwaysFrom(c) ==
    CASE c.op = "translate" ->
           [method |-> "POST", to |-> _normalize_lang(c.dest),
            text |-> c.items[c.i], from |-> _normalize_lang(c.src),
            platform |-> "absent"]
      [] c.op = "detect" ->
           [method |-> "POST", to |-> s_en_US, text |-> c.items[c.i],
            from |-> s_en_US, platform |-> "dp"]
      [] OTHER ->
           [method |-> "GET", to |-> AbsentStr, text |-> "", from |-> AbsentStr,
            platform |-> "absent"]

\* The request each call builds: translate posts {'to': dest_code, 'text':
\* text} with 'from' added if src_code != 'auto'; detect posts {'to': 'en_US',
\* 'text': text} to TRANSLATE_URL + '?platform=dp'; get_languages gets
\* GET_LANGUAGES_URL.
Payload(c) ==
    CASE c.op = "translate" ->
           [method |-> "POST", to |-> _normalize_lang(c.dest),
            text |-> c.items[c.i],
            from |-> IF _normalize_lang(c.src) # s_auto
                     THEN _normalize_lang(c.src) ELSE AbsentStr,
            platform |-> "absent"]
      [] c.op = "detect" ->
           [method |-> "POST", to |-> s_en_US, text |-> c.items[c.i],
            from |-> AbsentStr, platform |-> "dp"]
      [] OTHER ->
           [method |-> "GET", to |-> AbsentStr, text |-> "", from |-> AbsentStr,
            platform |-> "absent"]

\* What session.post / session.get does on the handle that was yielded: None
\* has no such attribute, a closed session refuses, an open one sends.
PostFailure(sid) ==
    IF sid = 0 THEN "AttributeError"
    ELSE IF SessionClosed(sid) THEN "RuntimeError"
    ELSE ""

\* yield self._session; session.post(url, data=payload, proxy=self.proxy,
\* proxy_auth=self.proxy_auth).  A failure leaves both async with blocks,
\* which releases the reader lock.
Post(t) ==
    /\ Runs(t)
    /\ pc[t] = "post"
    /\ IF PostFailure(_session) # ""
       THEN /\ exc' = [exc EXCEPT ![t] = PostFailure(_session)]
            /\ out' = [out EXCEPT ![t] = <<>>]
            /\ Release(t, _r_state - 1, _w_state, "done")
            /\ UNCHANGED <<req, call>>
       ELSE /\ req' = [req EXCEPT ![t] =
                        [sid |-> _session, proxy |-> proxy,
                         proxy_auth |-> proxy_auth,
                         method |-> Payload(call[t]).method,
                         to |-> Payload(call[t]).to,
                         text |-> Payload(call[t]).text,
                         from |-> Payload(call[t]).from,
                         platform |-> Payload(call[t]).platform,
                         status |-> 0, data |-> NoData]]
            /\ call' = [call EXCEPT ![t].sent = @ + 1]
            /\ pc' = [pc EXCEPT ![t] = "inflight"]
            /\ UNCHANGED <<lockVars, exc, out>>
    /\ running' = 0
    /\ UNCHANGED <<raise_exception, cfgVars, sessVars, ops, normVars, scope>>

\* The response's status line arrives: status = resp.status, and the task
\* goes on to await resp.json().
Headers(t, status) ==
    /\ running = 0
    /\ pc[t] = "inflight"
    /\ req' = [req EXCEPT ![t].status = status]
    /\ pc' = [pc EXCEPT ![t] = "body"]
    /\ UNCHANGED <<raise_exception, cfgVars, sessVars, lockVars, running, call,
                   out, exc, ops, normVars, scope>>


(***************************************************************************)
(* Results (lingvatrans.models) and the mapping of a response to a result. *)
(***************************************************************************)
Translated(src, dest, origin, text, extra_data) ==
    [src |-> src, dest |-> dest, origin |-> origin, text |-> text,
     extra_data |-> extra_data]

Detected(lang, confidence) == [lang |-> lang, confidence |-> confidence]

s_unknown == <<"u","n","k","n","o","w","n">>

\* What a call step produced: a value returned or an exception raised.
Returned(v) == [exc |-> "", val |-> v]
Raised(e) == [exc |-> e, val |-> <<>>]

\* A plausible slip: the raise_exception policy is not consulted.
TranslateOutcomeAlwaysRaise(c, status, data) ==
    IF status # 200 \/ HasErr(data)
    THEN Raised("Exception")
    ELSE Returned(Translated(c.src, c.dest, c.items[c.i], data.result, data))

\* A plausible slip: the language the response reports always replaces src.
ReturnedSrcFromResponse(c, data) ==
    IF data.from \in {AbsentStr, <<>>} THEN c.src ELSE data.from

\* detected_src = data.get('from', src_code);
\* if src_code == 'auto' and detected_src: src = detected_src
ReturnedSrc(c, data) ==
    LET src_code == _normalize_lang(c.src)
        detected_src == IF data.from = AbsentStr THEN src_code ELSE data.from
    IN  IF src_code = s_auto /\ detected_src # <<>> THEN detected_src ELSE c.src

\* translate, from status = resp.status to the return.
TranslateOutcome(c, status, data) ==
    LET text == c.items[c.i]
        translated_text == IF data.result = "absent" THEN "" ELSE data.result
        src == ReturnedSrc(c, data)
    IN  IF status # 200
        THEN IF raise_exception THEN Raised("Exception")
             ELSE Returned(Translated(c.src, c.dest, text, "", data))
        ELSE IF HasErr(data)
        THEN IF raise_exception THEN Raised("Exception")
             ELSE Returned(Translated(c.src, c.dest, text, "", data))
        ELSE Returned(Translated(src, c.dest, text, translated_text, data))

\* A plausible slip: the generic from field is preferred to sourceLanguage.
DetectOutcomeFromFirst(c, status, data) ==
    LET lang == IF data.from \notin {AbsentStr, <<>>} THEN data.from
                ELSE IF data.sourceLanguage = AbsentStr THEN s_unknown
                ELSE data.sourceLanguage
        confidence == IF data.score = "absent" THEN "None" ELSE data.score
    IN  IF status # 200 \/ HasErr(data)
        THEN IF raise_exception THEN Raised("Exception")
             ELSE Returned(Detected(s_unknown, "None"))
        ELSE Returned(Detected(lang, confidence))

\* detect, from status = resp.status to the return.
DetectOutcome(c, status, data) ==
    LET lang == IF data.sourceLanguage \notin {AbsentStr, <<>>}
                THEN data.sourceLanguage
                ELSE IF data.from = AbsentStr THEN s_unknown ELSE data.from
        confidence == IF data.score = "absent" THEN "None" ELSE data.score
    IN  IF status # 200
        THEN IF raise_exception THEN Raised("Exception")
             ELSE Returned(Detected(s_unknown, "None"))
        ELSE IF HasErr(data)
        THEN IF raise_exception THEN Raised("Exception")
             ELSE Returned(Detected(s_unknown, "None"))
        ELSE Returned(Detected(lang, confidence))

\* get_languages, from the body to the return: the status is not read.
GetLanguagesOutcome(c, status, data) ==
    IF HasErr(data)
    THEN IF raise_exception THEN Raised("Exception") ELSE Returned(<<>>)
    ELSE Returned(IF data.result = "absent" THEN <<>> ELSE <<data.result>>)

Outcome(c, status, data) ==
    CASE c.op = "translate" -> TranslateOutcome(c, status, data)
      [] c.op = "detect" -> DetectOutcome(c, status, data)
      [] OTHER -> GetLanguagesOutcome(c, status, data)

\* A plausible slip: the newest result is put in front of the others.
CollectInFront(results, v) == <<v>> \o results

\* The list comprehension [await self.translate(item, ...) for item in text]
\* collects each result behind the earlier ones.
Collect(results, v) == Append(results, v)

\* Whether the list form has a further item to work on.
MoreItems(c) == c.list /\ c.i < Len(c.items)

\* A plausible slip: a request that failed is issued again.
NextStatementRetry(c, o) ==
    IF o.exc # "" THEN "get"
    ELSE IF MoreItems(c) THEN ItemStart(c.op) ELSE "done"

\* Where a call goes once it has mapped a response (outcome o): a raise and
\* a return both leave the call; the list form goes on to its next text.
NextStatement(c, o) ==
    IF o.exc = "" /\ MoreItems(c) THEN ItemStart(c.op) ELSE "done"

\* data = await resp.json(content_type=None) arrives and the call maps it.
\* Returning or raising leaves both async with blocks, which releases the
\* reader lock; the list form then goes on to its next item.
Body(t, data) ==
    LET c == call[t]
        o == Outcome(c, req[t].status, data)
        more == o.exc = "" /\ MoreItems(c)
    IN  /\ running = 0
        /\ pc[t] = "body"
        /\ exc' = [exc EXCEPT ![t] = o.exc]
        /\ out' = [out EXCEPT ![t] =
                     IF o.exc = "" THEN Collect(out[t], o.val) ELSE <<>>]
        /\ req' = [req EXCEPT ![t].data = data]
        /\ call' = [call EXCEPT ![t] =
                      IF more THEN [c EXCEPT !.i = c.i + 1, !.sent = 0] ELSE c]
        /\ Release(t, _r_state - 1, _w_state, NextStatement(c, o))
        /\ running' = IF more THEN t ELSE 0
        /\ UNCHANGED <<raise_exception, cfgVars, sessVars, ops, normVars, scope>>

\* The request fails in transport (connection refused, timeout): the client
\* catches nothing, so the error leaves both async with blocks, which
\* releases the reader lock, and reaches the caller.
TransportError(t) ==
    /\ running = 0
    /\ pc[t] = "inflight"
    /\ exc' = [exc EXCEPT ![t] = "ClientError"]
    /\ out' = [out EXCEPT ![t] = <<>>]
    /\ Release(t, _r_state - 1, _w_state, "done")
    /\ UNCHANGED <<raise_exception, cfgVars, sessVars, running, call, req, ops,
                   normVars, scope>>

\* A plausible slip: a cancelled call keeps its side of the lock.
LockKeptOnCancel(t) == [r |-> _r_state, w |-> _w_state]

\* What the lock holds once CancelledError has left the async with blocks
\* of call t: the reader side is released by _get_session, the writer side
\* by _ensure_session; a call that only waited held nothing.
LockAfterCancel(t) ==
    IF pc[t] \in {"post", "inflight", "body"}
    THEN [r |-> _r_state - 1, w |-> _w_state]
    ELSE IF pc[t] = "ensure_cs"
    THEN [r |-> _r_state, w |-> _w_state - 1]
    ELSE [r |-> _r_state, w |-> _w_state]

\* The task of a translate, detect or get_languages call is cancelled: the
\* event loop raises CancelledError at the await the call is suspended on
\* (the wait for the writer lock or for the reader lock, a lock granted but
\* not yet taken up, the request, the response body).  Nothing in the call
\* catches it; the session is not touched.
Cancel(t) ==
    /\ running = 0
    /\ call[t].op \in ReaderOps
    /\ pc[t] \in {"wait_w", "ensure_cs", "wait_r", "post", "inflight", "body"}
    /\ exc' = [exc EXCEPT ![t] = "CancelledError"]
    /\ out' = [out EXCEPT ![t] = <<>>]
    /\ IF pc[t] = "wait_w"
       THEN /\ _write_waiters' = SelectSeq(_write_waiters, LAMBDA u : u # t)
            /\ pc' = [pc EXCEPT ![t] = "done"]
            /\ UNCHANGED <<_r_state, _w_state, _read_waiters>>
       ELSE IF pc[t] = "wait_r"
       THEN /\ _read_waiters' = _read_waiters \ {t}
            /\ pc' = [pc EXCEPT ![t] = "done"]
            /\ UNCHANGED <<_r_state, _w_state, _write_waiters>>
       ELSE Release(t, LockAfterCancel(t).r, LockAfterCancel(t).w, "done")
    /\ UNCHANGED <<raise_exception, cfgVars, sessVars, running, call, req, ops,
                   normVars, scope>>

(***************************************************************************)
(* close and change_proxy, inside the writer lock.                         *)
(***************************************************************************)
\* close: if the session is open, await self._session.close(), which closes
\* the connector the session owns (and is taken to complete).
CloseBegin(t) ==
    /\ Runs(t)
    /\ pc[t] = "close_cs"
    /\ IF _session # 0 /\ ~SessionClosed(_session)
       THEN /\ live' = live \ {_session}
            /\ running' = 0
       ELSE /\ UNCHANGED live
            /\ running' = t
    /\ pc' = [pc EXCEPT ![t] = "close_fin"]
    /\ UNCHANGED <<raise_exception, cfgVars, _session, connector, sinfo, lockVars,
                   call, out, exc, req, ops, normVars, scope>>

\* A plausible slip: close keeps its reference to the closed session.
ClosedSessionRefKept == _session

\* self._session = None
ClosedSessionRef == 0

\* close, the finally blocks: the session reference is dropped, a connector
\* still open is closed, the connector reference is dropped, the lock released.
CloseFinish(t) ==
    /\ Runs(t)
    /\ pc[t] = "close_fin"
    /\ _session' = ClosedSessionRef
    /\ live' = live \ {connector}
    /\ connector' = 0
    /\ Release(t, _r_state, _w_state - 1, "done")
    /\ running' = 0
    /\ UNCHANGED <<raise_exception, cfgVars, sinfo, call, out, exc, req, ops,
                   normVars, scope>>

\* change_proxy: if the session is open, await self._session.close().
ChangeProxyBegin(t) ==
    /\ Runs(t)
    /\ pc[t] = "cp_cs"
    /\ IF _session # 0 /\ ~SessionClosed(_session)
       THEN /\ live' = live \ {_session}
            /\ running' = 0
       ELSE /\ UNCHANGED live
            /\ running' = t
    /\ pc' = [pc EXCEPT ![t] = "cp_fin"]
    /\ UNCHANGED <<raise_exception, cfgVars, _session, connector, sinfo, lockVars,
                   call, out, exc, req, ops, normVars, scope>>

\* The connectors still open once change_proxy has closed connector c.
StillOpenAfter(c) == live \ {c}

\* change_proxy, the rest: the old references are dropped and the old
\* connector closed, the proxy settings are replaced, a connector and a
\* session are built for them and installed, the lock is released.
ChangeProxyFinish(t) ==
    LET c == ConfigFor(call[t].proxy, call[t].auth) IN
    /\ Runs(t)
    /\ pc[t] = "cp_fin"
    /\ proxy' = c.proxy
    /\ proxy_auth' = c.proxy_auth
    /\ _proxy_url' = call[t].proxy
    /\ _use_proxy_connector' = c.use
    /\ connector' = NewId
    /\ _session' = NewId
    /\ live' = StillOpenAfter(connector) \cup {NewId}
    /\ sinfo' = Append(sinfo, SessionRecord(c.kind, c.proxy, c.proxy_auth))
    /\ Release(t, _r_state, _w_state - 1, "done")
    /\ running' = 0
    /\ UNCHANGED <<raise_exception, call, out, exc, req, ops, normVars, scope>>

\* The caller takes the result (or the exception) of its finished call.
Return(t) ==
    /\ running = 0
    /\ pc[t] = "done"
    /\ pc' = [pc EXCEPT ![t] = "idle"]
    /\ call' = [call EXCEPT ![t] = NoCall]
    /\ out' = [out EXCEPT ![t] = <<>>]
    /\ exc' = [exc EXCEPT ![t] = ""]
    /\ req' = [req EXCEPT ![t] = NoReq]
    /\ scope' = ScopeAfterCall(call[t].op, exc[t])
    /\ UNCHANGED <<raise_exception, cfgVars, sessVars, lockVars, running, ops,
                   normVars>>

(***************************************************************************)
(* Spec: the calls of NTasks concurrent callers on one client.             *)
(***************************************************************************)
OkData(text) == Data("null", MockTranslation(text), s_en_US, AbsentStr, "absent")

\* The normaliser is at rest in the specifications of the client.
Pending == <<"?">>

NormIdle == lang_in = s_auto /\ lang_out = Pending

\* The count of calls starts at 0; a specification that does not bound the
\* calls starts it at its cap, where it stays.
OpsCap == MaxOps + MaxSeqOps

Init == Construct(FALSE, NoProxy, NoAuth) /\ NormIdle /\ ops = 0

Step(t) ==
    \/ Normalize(t)
    \/ AcquireWrite(t)
    \/ EnsureSession(t)
    \/ AcquireRead(t)
    \/ Post(t)
    \/ Headers(t, 200)
    \/ Body(t, OkData(req[t].text))
    \/ Return(t)

Next ==
    \E t \in Tasks :
        \/ ops < MaxOps /\ CallTranslate(t, FALSE, <<"a">>, s_fr_FR, s_auto)
        \/ ops < MaxOps /\ CallDetect(t, FALSE, <<"a">>)
        \/ ops < MaxOps /\ CallGetLanguages(t)
        \/ ops < MaxOps /\ CallClose(t)
        \/ ops < MaxOps /\ CallChangeProxy(t, HttpProxy, UserAuth)
        \/ CloseBegin(t)
        \/ CloseFinish(t)
        \/ ChangeProxyBegin(t)
        \/ ChangeProxyFinish(t)
        \/ Step(t)

Spec == Init /\ [][Next]_vars


(***************************************************************************)
(* SpecProxy: concurrent translate calls and proxy reconfigurations on a   *)
(* client built with an HTTP proxy and credentials; nobody calls close.    *)
(***************************************************************************)
InitProxy == Construct(FALSE, HttpProxy, UserAuth) /\ NormIdle /\ ops = 0

NextProxy ==
    \E t \in Tasks :
        \/ ops < MaxOps /\ CallTranslate(t, FALSE, <<"a">>, s_fr_FR, s_auto)
        \/ \E p \in {NoProxy, HttpProxy2, SocksProxy} :
              ops < MaxOps /\ CallChangeProxy(t, p, NoAuth)
        \/ ChangeProxyBegin(t)
        \/ ChangeProxyFinish(t)
        \/ Step(t)

SpecProxy == InitProxy /\ [][NextProxy]_vars

(***************************************************************************)
(* SpecSeq: one caller makes one call after the other, with every form of  *)
(* argument and every kind of response.                                    *)
(***************************************************************************)
Texts == {"a", "b"}

TextLists == UNION {[1..k -> Texts] : k \in 0..MaxLen}

s_French == <<"F","r","e","n","c","h">>

\* The (dest, src) arguments: canonical codes, alpha-1 codes, a name, and
\* arguments that resolve to nothing.
LangArgs ==
    {<<s_fr_FR, s_auto>>, <<s_fr, s_en>>, <<s_French, s_auto>>,
     <<s_xx, s_auto>>, <<s_fr_FR, s_klingon>>}

\* The mock remote service: the language it detects for each text.
MockLanguage(text) == IF text = "a" THEN s_en_US ELSE s_fr_FR

\* The bodies the remote service may answer with, by the status it sent.
Responses(op, text, status) ==
    CASE op = "translate" /\ status = 200 ->
           {Data("absent", MockTranslation(text), MockLanguage(text), AbsentStr, "absent"),
            Data("absent", MockTranslation(text), <<>>, AbsentStr, "absent"),
            Data("null", MockTranslation(text), AbsentStr, AbsentStr, "absent"),
            Data("msg", "absent", AbsentStr, AbsentStr, "absent")}
      [] op = "translate" ->
           {Data("msg", "absent", AbsentStr, AbsentStr, "absent")}
      [] op = "detect" /\ status = 200 ->
           {Data("absent", MockTranslation(text), s_en_US,
                 MockLanguage(text), "0.9"),
            Data("null", MockTranslation(text), MockLanguage(text),
                 AbsentStr, "absent"),
            Data("absent", MockTranslation(text), AbsentStr, AbsentStr, "absent"),
            Data("msg", "absent", AbsentStr, AbsentStr, "absent")}
      [] op = "detect" ->
           {Data("msg", "absent", AbsentStr, AbsentStr, "absent")}
      [] op = "get_languages" /\ status = 200 ->
           {Data("null", "catalog", AbsentStr, AbsentStr, "absent"),
            Data("msg", "absent", AbsentStr, AbsentStr, "absent")}
      [] OTHER ->
           {Data("null", "catalog", AbsentStr, AbsentStr, "absent"),
            Data("msg", "absent", AbsentStr, AbsentStr, "absent")}

Quiet == \A u \in Tasks : pc[u] = "idle"

InitSeq ==
    \E r \in BOOLEAN : Construct(r, NoProxy, NoAuth) /\ NormIdle /\ ops = 0

NextSeq ==
    \E t \in {1} :
        \/ \E items \in TextLists, a \in LangArgs :
              Quiet /\ ops < MaxSeqOps /\ CallTranslate(t, TRUE, items, a[1], a[2])
        \/ \E text \in Texts, a \in LangArgs :
              Quiet /\ ops < MaxSeqOps /\ CallTranslate(t, FALSE, <<text>>, a[1], a[2])
        \/ \E items \in TextLists :
              Quiet /\ ops < MaxSeqOps /\ CallDetect(t, TRUE, items)
        \/ \E text \in Texts :
              Quiet /\ ops < MaxSeqOps /\ CallDetect(t, FALSE, <<text>>)
        \/ Quiet /\ ops < MaxSeqOps /\ CallGetLanguages(t)
        \/ Quiet /\ ops < MaxSeqOps /\ CallClose(t)
        \/ \E p \in {NoProxy, HttpProxy, SocksProxy} :
              Quiet /\ ops < MaxSeqOps /\ CallChangeProxy(t, p, UserAuth)
        \/ CloseBegin(t)
        \/ CloseFinish(t)
        \/ ChangeProxyBegin(t)
        \/ ChangeProxyFinish(t)
        \/ Normalize(t)
        \/ AcquireWrite(t)
        \/ EnsureSession(t)
        \/ AcquireRead(t)
        \/ Post(t)
        \/ \E status \in {200, 500} : Headers(t, status)
        \/ \E data \in Responses(call[t].op, req[t].text, req[t].status) :
              Body(t, data)
        \/ TransportError(t)
        \/ Return(t)

SpecSeq == InitSeq /\ [][NextSeq]_vars

(***************************************************************************)
(* SpecCancel: three callers make concurrent translate, detect and         *)
(* get_languages calls, any of which may be cancelled where it is          *)
(* suspended, with change_proxy, and with close once the calls before it   *)
(* have ended.  The callers being alike, it is the first that reconfigures *)
(* and closes.                                                             *)
(***************************************************************************)
\* The steps of close and of change_proxy.
WriterStep(t) ==
    \/ CloseBegin(t)
    \/ CloseFinish(t)
    \/ ChangeProxyBegin(t)
    \/ ChangeProxyFinish(t)

AllSettled == \A u \in Tasks : pc[u] \in {"idle", "done"}

NextCancel ==
    \/ \E t \in {1} :
          \/ ops < MaxOps /\ CallChangeProxy(t, HttpProxy, UserAuth)
          \/ ops < MaxOps /\ AllSettled /\ CallClose(t)
          \/ WriterStep(t)
    \/ \E t \in {1, 2, 3} :
          \/ ops < MaxOps /\ CallTranslate(t, FALSE, <<"a">>, s_fr_FR, s_auto)
          \/ ops < MaxOps /\ CallDetect(t, FALSE, <<"a">>)
          \/ ops < MaxOps /\ CallGetLanguages(t)
          \/ Cancel(t)
          \/ Step(t)

SpecCancel == Init /\ [][NextCancel]_vars

(***************************************************************************)
(* SpecLive: one caller keeps making translate calls and another detect    *)
(* calls, without end if they choose, while a third reconfigures and       *)
(* closes the client.                                                      *)
(* The event loop runs every task that is ready (its ready queue is first  *)
(* in, first out) and every request in flight is answered in the end: each *)
(* task is strongly fair for its steps.  Nothing obliges a caller to make  *)
(* a call.                                                                 *)
(***************************************************************************)
NextLive ==
    \/ \E t \in {1} : CallTranslate(t, FALSE, <<"a">>, s_fr_FR, s_auto)
    \/ \E t \in {2} : CallDetect(t, FALSE, <<"a">>)
    \/ \E t \in {3} :
          \/ Len(sinfo) < MaxOps /\ CallChangeProxy(t, HttpProxy, UserAuth)
          \/ Len(sinfo) < MaxOps /\ CallClose(t)
    \/ \E t \in {1, 2, 3} :
          \/ WriterStep(t)
          \/ Step(t)

InitLive == Construct(FALSE, NoProxy, NoAuth) /\ NormIdle /\ ops = OpsCap

FairLive == \A t \in {1, 2, 3} : SF_vars(Step(t) \/ WriterStep(t))

SpecLive == InitLive /\ [][NextLive]_vars /\ FairLive

(***************************************************************************)
(* SpecScope: one caller uses the client as "async with client:", on a     *)
(* client it may have closed before; the body makes calls that return or   *)
(* raise, or none at all.                                                  *)
(***************************************************************************)
InitScope ==
    \E r \in BOOLEAN : Construct(r, NoProxy, NoAuth) /\ NormIdle /\ ops = 0

NextScope ==
    \E t \in {1} :
        \/ Quiet /\ scope = "out" /\ ops < MaxSeqOps /\ CallClose(t)
        \/ Quiet /\ scope = "out" /\ CallAenter(t)
        \/ \E text \in Texts, a \in {<<s_fr, s_auto>>, <<s_xx, s_auto>>} :
              /\ Quiet /\ scope = "in" /\ ops < MaxSeqOps + 1
              /\ CallTranslate(t, FALSE, <<text>>, a[1], a[2])
        \/ Quiet /\ scope = "in" /\ ops < MaxSeqOps + 1 /\ CallGetLanguages(t)
        \/ Quiet /\ scope = "in" /\ ops < MaxSeqOps + 1 /\ CallClose(t)
        \/ Quiet /\ scope \in {"in", "raised"} /\ CallAexit(t)
        \/ CloseBegin(t)
        \/ CloseFinish(t)
        \/ Normalize(t)
        \/ AcquireWrite(t)
        \/ EnsureSession(t)
        \/ AcquireRead(t)
        \/ Post(t)
        \/ \E status \in {200, 500} : Headers(t, status)
        \/ \E data \in Responses(call[t].op, req[t].text, req[t].status) :
              Body(t, data)
        \/ TransportError(t)
        \/ Return(t)

SpecScope == InitScope /\ [][NextScope]_vars

(***************************************************************************)
(* SpecNorm: _normalize_lang applied to one input.                         *)
(***************************************************************************)
\* Every spelling of s in upper and lower case letters.
RECURSIVE CaseVariants(_)
CaseVariants(s) ==
    IF s = <<>> THEN {<<>>}
    ELSE {<<c>> \o v : c \in {LowerChar(Head(s)), UpperChar(Head(s))},
                        v \in CaseVariants(Tail(s))}

NormInputs ==
    UNION {CaseVariants(s) :
             s \in {s_auto, s_en_US, s_fr_FR, s_en, s_fr, s_yi, s_ii,
                    s_english, s_french, s_xx, s_klingon, <<>>}}

InitNorm ==
    /\ Construct(FALSE, NoProxy, NoAuth)
    /\ ops = 0
    /\ lang_in \in NormInputs
    /\ lang_out = Pending

ApplyNormalize ==
    /\ lang_out = Pending
    /\ lang_out' = _normalize_lang(lang_in)
    /\ UNCHANGED <<raise_exception, cfgVars, sessVars, lockVars, running, pc,
                   call, out, exc, req, ops, scope, lang_in>>

SpecNorm == InitNorm /\ [][ApplyNormalize]_vars

(***************************************************************************)
(* Properties of the session lifecycle.                                    *)
(***************************************************************************)
\* Task t is inside a critical section of the writer lock (_ensure_session,
\* close or change_proxy).
WriterInside(t) == pc[t] \in {"ensure_cs", "close_cs", "close_fin", "cp_cs", "cp_fin"}

\* Task t holds a session handle yielded by _get_session.
HoldsHandle(t) == pc[t] \in {"post", "inflight", "body"}

\* The request of task t is on the wire.
InFlight(t) == pc[t] \in {"inflight", "body"}

\* The call of task t failed for lack of a usable session.
FailedForSession(t) == exc[t] \in {"AttributeError", "RuntimeError"}

\* C2: in every interleaving of translate, detect and get_languages with
\* close, the handle a call obtains from _get_session after its own
\* _ensure_session is a live session (not None, not closed), and no call
\* fails for lack of a session.
C2_HandleAlwaysLive ==
    \A t \in Tasks :
        /\ pc[t] = "post" => _session # 0 /\ ~SessionClosed(_session)
        /\ ~FailedForSession(t)

\* C3: a session is never closed or replaced while a request is in flight on
\* it: while close or change_proxy (or _ensure_session) is inside its
\* critical section no reader call holds a session handle (so none obtains
\* one before the writer has finished), and the session of every request on
\* the wire is open and is still the one the client references.
C3_NoWriterWhileHandleHeld ==
    /\ \A w \in Tasks : WriterInside(w) => \A t \in Tasks : ~HoldsHandle(t)
    /\ \A t \in Tasks :
         InFlight(t) => req[t].sid = _session /\ ~SessionClosed(req[t].sid)

\* C3's case: close has closed the session and is suspended inside its
\* critical section while a reader call waits for the lock.
C3_Witness ==
    \E w, t \in Tasks :
        /\ call[w].op = "close" /\ pc[w] = "close_fin" /\ running = 0
        /\ call[t].op \in ReaderOps /\ pc[t] = "wait_w"

\* C4: the client has at most one open session, and it is the one it
\* references: no session ever constructed is open and unreferenced.
C4_OneOpenSession ==
    /\ Cardinality(live) <= 1
    /\ \A n \in 1..Len(sinfo) : ~SessionClosed(n) => n = _session /\ n = connector

\* C4's case: two callers raced on _ensure_session with no live session; the
\* first has built a session and the second is inside _ensure_session.
C4_Witness ==
    \E t, u \in Tasks :
        /\ t # u
        /\ call[t].op \in ReaderOps /\ pc[t] = "wait_r"
        /\ call[u].op \in ReaderOps /\ pc[u] = "ensure_cs"
        /\ Len(sinfo) >= 2 /\ _session = Len(sinfo) /\ ~SessionClosed(_session)


\* A task waits for the lock.
Waits(t) == pc[t] \in {"wait_w", "wait_r"}

\* A task has a step to take.
CanMove(t) == pc[t] \notin {"idle", "done", "wait_w", "wait_r"}

\* C1: with translate calls running concurrently with change_proxy, in every
\* interleaving no translate call fails, none is left waiting for a lock
\* that nobody holds, each request is issued and stays on an open session,
\* and the proxy and proxy_auth it passes are those of the configuration
\* that session was built for.
C1_ReconfigurationSafe ==
    /\ \A t \in Tasks :
         /\ exc[t] = ""
         /\ pc[t] = "post" => _session # 0 /\ ~SessionClosed(_session)
         /\ InFlight(t) =>
              /\ ~SessionClosed(req[t].sid)
              /\ req[t].proxy = sinfo[req[t].sid].proxy
              /\ req[t].proxy_auth = sinfo[req[t].sid].proxy_auth
    /\ (\E t \in Tasks : Waits(t)) => \E u \in Tasks : CanMove(u)

\* C1's case: one translate has completed on the session of the old
\* configuration, change_proxy has completed, and another translate has its
\* request in flight on the session of the new configuration.
C1_Witness ==
    \E t, u, w \in Tasks :
        /\ call[w].op = "change_proxy" /\ pc[w] = "done"
        /\ call[u].op = "translate" /\ pc[u] = "done" /\ req[u].sid = 1
           /\ req[u].proxy = HttpProxy
        /\ call[t].op = "translate" /\ pc[t] = "inflight" /\ req[t].sid = 2
           /\ req[t].proxy # HttpProxy

(***************************************************************************)
(* Properties of one caller's calls (SpecSeq).                             *)
(***************************************************************************)
\* What each step of a close, and of a reader call after it, does to the
\* session.
C5_CloseAct ==
    \A t \in Tasks :
        /\ (pc[t] = "close_fin" /\ pc'[t] = "done") =>
              _session' = 0 /\ connector' = 0 /\ live' = {} /\ exc'[t] = ""
        /\ (call[t].op = "close" /\ pc[t] \in {"close", "close_cs", "close_fin"}
            /\ _session = 0 /\ connector = 0) =>
              UNCHANGED <<sessVars, cfgVars>> /\ exc'[t] = ""
        /\ (call[t].op \in ReaderOps /\ pc[t] = "ensure_cs" /\ _session = 0) =>
              /\ Len(sinfo') = Len(sinfo) + 1
              /\ _session' = Len(sinfo') /\ connector' = Len(sinfo')
              /\ live' = {_session'}
        /\ (call[t].op \in ReaderOps /\ pc[t] \notin {"idle", "ensure_cs"}) =>
              UNCHANGED sessVars

\* A reader call of the lone caller never lacks a session.
C5_CloseInv ==
    \A t \in Tasks :
        call[t].op \in ReaderOps =>
            /\ ~FailedForSession(t)
            /\ HoldsHandle(t) => _session # 0 /\ live = {_session}

\* C5: close is idempotent.  A close that completes leaves no session and no
\* connector and raises nothing; a close of a client that is already closed
\* changes nothing; a reader call that finds the client closed builds
\* exactly one fresh session, issues its request on it and does not fail
\* for lack of a session.
C5_CloseIdempotent == [](C5_CloseInv) /\ [][C5_CloseAct]_vars

\* C5's case: close is inside its critical section on a client that an
\* earlier close has left with no session and no connector.
C5_Witness ==
    \E t \in Tasks :
        /\ call[t].op = "close" /\ pc[t] = "close_fin"
        /\ _session = 0 /\ connector = 0 /\ ops >= 2

\* The i-th result of a list call is the result for the i-th text.
ResultFor(c, r, text) ==
    IF c.op = "translate"
    THEN r.origin = text /\ (r.text # "" => r.text = MockTranslation(text))
    ELSE r.lang # s_unknown => r.lang = MockLanguage(text)

\* C6: the list form of translate and of detect returns as many results as
\* texts, the i-th being the result for the i-th text, and works through the
\* texts one after the other: the request for a text is issued when the
\* results of all texts before it, and of no other, have been collected.
C6_ListOrder ==
    \A t \in Tasks :
        (call[t].list /\ call[t].op \in {"translate", "detect"}) =>
            /\ \A i \in 1..Len(out[t]) :
                 ResultFor(call[t], out[t][i], call[t].items[i])
            /\ (pc[t] = "done" /\ exc[t] = "") => Len(out[t]) = Len(call[t].items)
            /\ HoldsHandle(t) => Len(out[t]) = call[t].i - 1
            /\ InFlight(t) => req[t].text = call[t].items[call[t].i]

\* C6's case: translate(["a", "b"]) has returned the translations "A", "B".
C6_Witness ==
    \E t \in Tasks :
        /\ call[t].op = "translate" /\ call[t].list /\ pc[t] = "done"
        /\ call[t].items = <<"a", "b">>
        /\ Len(out[t]) = 2 /\ out[t][1].text = "A" /\ out[t][2].text = "B"

\* A single-text translate has received its response and ended.
TranslateEnded(t) ==
    /\ call[t].op = "translate" /\ ~call[t].list
    /\ pc[t] = "done" /\ call[t].sent = 1 /\ req[t].status # 0

\* What C7 promises for a failed response.
FailurePolicy(t) ==
    IF raise_exception
    THEN exc[t] = "Exception"
    ELSE /\ exc[t] = ""
         /\ out[t][1].text = ""
         /\ out[t][1].origin = call[t].items[1]
         /\ out[t][1].extra_data = req[t].data

\* C7 as stated: a response with a status other than 200, or with an err
\* field, makes a single-text translate raise when raise_exception is set
\* and otherwise return a Translated with empty text, the input as origin
\* and the payload as extra_data.
C7_AnyErrFieldFails ==
    \A t \in Tasks :
        (TranslateEnded(t) /\ (req[t].status # 200 \/ req[t].data.err # "absent"))
            => FailurePolicy(t)

\* C7 as amended: the same for a response with a status other than 200, or
\* with an err field whose value is not null (nor empty).
C7_TruthyErrFails ==
    \A t \in Tasks :
        (TranslateEnded(t) /\ (req[t].status # 200 \/ req[t].data.err = "msg"))
            => FailurePolicy(t)

\* C7's case: without raise_exception, a translate answered with status 500
\* has returned its degraded result.
C7_Witness ==
    \E t \in Tasks :
        /\ TranslateEnded(t) /\ ~raise_exception /\ req[t].status = 500
        /\ exc[t] = "" /\ out[t][1].text = ""


(***************************************************************************)
(* The reference resolution of a language argument.                        *)
(***************************************************************************)
\* Two characters are the same letter in either case, or the same character.
SameLetter(a, b) ==
    \/ a = b
    \/ \E k \in 1..26 : {a, b} = {LowerLetters[k], UpperLetters[k]}

\* x spells the name n, letter case apart.
Spells(x, n) ==
    /\ Len(x) = Len(n)
    /\ \A i \in 1..Len(n) : SameLetter(x[i], n[i])

\* 'auto', then the canonical codes, then the alpha-1 codes, then the English
\* names in any letter case; anything else resolves to nothing.
Resolution(x) ==
    IF x = s_auto THEN s_auto
    ELSE IF x \in LANGUAGES THEN x
    ELSE IF \E a \in DOMAIN ALPHA1_TO_FULL : a = x
    THEN ALPHA1_TO_FULL[CHOOSE a \in DOMAIN ALPHA1_TO_FULL : a = x]
    ELSE IF \E n \in DOMAIN LANGCODES : Spells(x, n)
    THEN LANGCODES[CHOOSE n \in DOMAIN LANGCODES : Spells(x, n)]
    ELSE Unresolved

\* A single-text translate whose dest or src resolves to nothing.
UnresolvedTranslate(t) ==
    /\ call[t].op = "translate" /\ ~call[t].list
    /\ (Resolution(call[t].dest) = Unresolved \/ Resolution(call[t].src) = Unresolved)

\* Such a call is never past its normalisation and has sent nothing.
C8_UnresolvedInv ==
    \A t \in Tasks :
        UnresolvedTranslate(t) =>
            /\ pc[t] \in {"norm", "done"}
            /\ call[t].sent = 0
            /\ pc[t] = "done" => exc[t] = "ValueError"

\* Its one step raises and touches nothing of the client.
C8_UnresolvedAct ==
    \A t \in Tasks :
        (UnresolvedTranslate(t) /\ pc[t] = "norm") =>
            /\ pc'[t] = "done" /\ exc'[t] = "ValueError"
            /\ UNCHANGED <<sessVars, lockVars, cfgVars, req>>

\* C8: a single-text translate whose dest or src cannot be resolved raises
\* the unresolved-language error whatever raise_exception is, before the
\* session is ensured, before any lock is taken and before any request is
\* issued: the session, the lock and the proxy settings are as they were.
C8_UnresolvedRaisesFirst == [](C8_UnresolvedInv) /\ [][C8_UnresolvedAct]_vars

\* C8's case: a client built without raise_exception has raised ValueError
\* for translate(text, dest='xx').
C8_Witness ==
    \E t \in Tasks :
        /\ UnresolvedTranslate(t) /\ call[t].dest = s_xx /\ ~raise_exception
        /\ pc[t] = "done" /\ exc[t] = "ValueError"

\* C9: _normalize_lang agrees with the reference resolution on every input.
C9_NormalizeAgrees == lang_out # Pending => lang_out = Resolution(lang_in)

\* C9's case: "yi", an alpha-1 code that is also a language name, has been
\* resolved by the alpha-1 table.
C9_Witness == lang_in = s_yi /\ lang_out = s_yi_IL

\* C10: every Translated that translate returns has as dest the canonical
\* code that the dest argument resolves to.
C10_DestIsCanonical ==
    \A t \in Tasks :
        (call[t].op = "translate" /\ pc[t] = "done" /\ exc[t] = "") =>
            \A i \in 1..Len(out[t]) :
                /\ out[t][i].dest \in LANGUAGES
                /\ out[t][i].dest = Resolution(call[t].dest)

\* A single-text translate has returned the result of a successful response:
\* status 200 and no err field.
TranslateSucceeded(t) ==
    /\ TranslateEnded(t) /\ exc[t] = ""
    /\ req[t].status = 200 /\ req[t].data.err = "absent"

\* The response reports a source language in its from field.
ReportsFrom(data) == data.from \notin {AbsentStr, <<>>}

C12_RequestFields ==
    \A t \in Tasks :
        LET c == call[t]
            r == req[t]
        IN  /\ (InFlight(t) /\ c.op = "translate") =>
                  /\ r.method = "POST"
                  /\ r.to = Resolution(c.dest) /\ r.to \in LANGUAGES
                  /\ r.text = c.items[c.i]
                  /\ r.from # AbsentStr <=> Resolution(c.src) # s_auto
                  /\ r.from # AbsentStr =>
                        r.from = Resolution(c.src) /\ r.from \in LANGUAGES
                  /\ r.platform = "absent"
            /\ (InFlight(t) /\ c.op = "detect") =>
                  /\ r.method = "POST"
                  /\ r.to = s_en_US
                  /\ r.text = c.items[c.i]
                  /\ r.from = AbsentStr
                  /\ r.platform = "dp"

\* C12's case: the request of translate("a", dest="fr", src="en") is on the
\* wire with to = fr_FR and from = en_US.
C12_Witness ==
    \E t \in Tasks :
        /\ call[t].op = "translate" /\ ~call[t].list /\ pc[t] = "inflight"
        /\ call[t].dest = s_fr /\ call[t].src = s_en
        /\ req[t].to = s_fr_FR /\ req[t].from = s_en_US /\ req[t].text = "a"

\* A call of translate, detect or get_languages on one text.
SingleCall(t) == call[t].op \in ReaderOps /\ ~call[t].list

\* C13: a single-text translate, a single-text detect and a get_languages
\* call each issue at most one request, and exactly one when they return a
\* result; a call whose request failed (in transport, by its status or by
\* its err field) has ended and holds no request in flight: the request is
\* not issued a second time.
C13_OneRequestPerCall ==
    \A t \in Tasks :
        SingleCall(t) =>
            /\ call[t].sent <= 1
            /\ (pc[t] = "done" /\ exc[t] = "") =>
                  call[t].sent = 1 /\ Len(out[t]) = 1
            /\ (call[t].sent = 1 /\ pc[t] \notin {"inflight", "body"}) =>
                  pc[t] = "done"
            /\ pc[t] \in {"norm", "ensure", "wait_w", "ensure_cs", "get",
                           "wait_r", "post"} => call[t].sent = 0

\* C13's case: with raise_exception set, a detect answered with status 500
\* has raised after its one request.
C13_Witness ==
    \E t \in Tasks :
        /\ SingleCall(t) /\ call[t].op = "detect" /\ raise_exception
        /\ pc[t] = "done" /\ exc[t] = "Exception"
        /\ req[t].status = 500 /\ call[t].sent = 1

\* A get_languages call has received its response and ended.
GetLanguagesEnded(t) ==
    call[t].op = "get_languages" /\ pc[t] = "done" /\ req[t].status # 0

\* C14: get_languages treats a failed response (a status other than 200, or
\* an err field holding an error) by the raise_exception policy: it raises
\* when raise_exception is set and returns the empty list otherwise, and
\* never returns a catalog taken from a failed response.
C14_FailedCatalogPolicy ==
    \A t \in Tasks :
        (GetLanguagesEnded(t)
         /\ (req[t].status # 200 \/ req[t].data.err = "msg")) =>
            IF raise_exception
            THEN exc[t] = "Exception"
            ELSE exc[t] = "" /\ out[t] = << <<>> >>

\* A single-text detect has received its response and ended.
DetectEnded(t) ==
    /\ call[t].op = "detect" /\ ~call[t].list
    /\ pc[t] = "done" /\ call[t].sent = 1 /\ req[t].status # 0

\* What C15 promises for a failed response.
DetectFailurePolicy(t) ==
    IF raise_exception
    THEN exc[t] = "Exception"
    ELSE exc[t] = "" /\ out[t] = <<Detected(s_unknown, "None")>>

\* What C15 promises for a successful response.
DetectSuccess(t) ==
    LET data == req[t].data IN
    /\ exc[t] = "" /\ Len(out[t]) = 1
    /\ out[t][1].lang =
          IF data.sourceLanguage \notin {AbsentStr, <<>>} THEN data.sourceLanguage
          ELSE IF data.from # AbsentStr THEN data.from
          ELSE s_unknown
    /\ out[t][1].confidence =
          IF data.score = "absent" THEN "None" ELSE data.score

\* C15 as stated: a single-text detect whose response has a status other than
\* 200 or an err field raises when raise_exception is set and otherwise
\* returns Detected('unknown', None); on any other response lang is the
\* sourceLanguage field when present, else the from field, else 'unknown',
\* and confidence is the score field, or None without one.
C15_AnyErrFieldFails ==
    \A t \in Tasks :
        DetectEnded(t) =>
            IF req[t].status # 200 \/ req[t].data.err # "absent"
            THEN DetectFailurePolicy(t)
            ELSE DetectSuccess(t)

\* C15 as amended: the same, a failed response being one with a status other
\* than 200 or with an err field whose value is not null (nor empty).
C15_TruthyErrFails ==
    \A t \in Tasks :
        DetectEnded(t) =>
            IF req[t].status # 200 \/ req[t].data.err = "msg"
            THEN DetectFailurePolicy(t)
            ELSE DetectSuccess(t)

\* C15's case: detect("b") was answered with sourceLanguage fr_FR, from en_US
\* and a score, and has returned fr_FR with that score.
C15_Witness ==
    \E t \in Tasks :
        /\ DetectEnded(t) /\ req[t].status = 200
        /\ req[t].data.sourceLanguage = s_fr_FR /\ req[t].data.from = s_en_US
        /\ out[t] = <<Detected(s_fr_FR, "0.9")>>

\* The connector the configured proxy URL calls for.
ConfiguredKind ==
    IF _proxy_url # NoProxy /\ IsSocksUrl(_proxy_url) THEN "socks" ELSE "tcp"

\* C20: the proxy configuration survives the recreation of the session: the
\* open session of the client is built on the connector that the proxy URL
\* of the constructor or of the last change_proxy calls for, a SOCKS
\* connector for a socks4/socks5 URL, and every request on the wire goes
\* through a session of that kind.
C20_ProxySurvivesRecreation ==
    /\ (_session # 0 /\ ~SessionClosed(_session)) =>
          sinfo[_session].kind = ConfiguredKind
    /\ \A t \in Tasks :
          InFlight(t) => sinfo[req[t].sid].kind = ConfiguredKind

\* A close or a change_proxy is under way.
WriterCallActive ==
    \E w \in Tasks :
        call[w].op \in {"close", "change_proxy"} /\ pc[w] \notin {"idle", "done"}

\* C18: close and change_proxy are the only calls that take the writer side
\* of the lock, and translate, detect and get_languages take the reader side
\* only: a call of theirs that starts while the request of another is in
\* flight, with no close or change_proxy under way, does not wait for the
\* lock.
C18_ReadersOnlyShare ==
    \A t \in Tasks :
        call[t].op \in ReaderOps =>
            /\ ~WriterInside(t)
            /\ pc[t] # "wait_w"
            /\ (Waits(t) /\ \E u \in Tasks : InFlight(u)) => WriterCallActive

\* The scope has been left.
ScopeLeft == scope \in {"left_ok", "left_raised"}

\* C17: with the client used as "async with client:", a live session exists
\* when __aenter__ has returned, and __aexit__ closes on every exit path:
\* once the scope is left, the body having returned or raised, the client
\* holds no session and no connector and none is left open.
C17_ScopedClose ==
    /\ \A t \in Tasks :
          (call[t].op = "__aenter__" /\ pc[t] = "done") =>
              exc[t] = "" /\ _session # 0 /\ ~SessionClosed(_session)
    /\ ScopeLeft => _session = 0 /\ connector = 0 /\ live = {}

\* C17's case: the scope was entered on a closed client, for which
\* __aenter__ built a session, its body raised, and the scope has been left.
C17_Witness ==
    /\ scope = "left_raised" /\ Quiet
    /\ Len(sinfo) >= 2 /\ _session = 0 /\ connector = 0

\* The lock is in the state its holders and waiters account for.
LockConsistent ==
    /\ _r_state = Cardinality({t \in Tasks : HoldsHandle(t)})
    /\ _w_state = Cardinality({t \in Tasks : WriterInside(t)})
    /\ _w_state <= 1
    /\ _read_waiters = {t \in Tasks : pc[t] = "wait_r"}
    /\ {_write_waiters[i] : i \in 1..Len(_write_waiters)}
          = {t \in Tasks : pc[t] = "wait_w"}
    /\ Len(_write_waiters) = Cardinality({t \in Tasks : pc[t] = "wait_w"})

\* With cancellations: the lock stays consistent, no call fails but by its
\* own cancellation, every handle and every request is on an open session,
\* no call waits for a lock that nobody will release, and the lock is free
\* once the calls have ended.
C16_CancelInv ==
    /\ LockConsistent
    /\ \A t \in Tasks :
          /\ exc[t] \in {"", "CancelledError"}
          /\ pc[t] = "post" => _session # 0 /\ ~SessionClosed(_session)
          /\ InFlight(t) => req[t].sid = _session /\ ~SessionClosed(req[t].sid)
    /\ (\E t \in Tasks : Waits(t)) => \E u \in Tasks : CanMove(u)
    /\ AllSettled =>
          _r_state = 0 /\ _w_state = 0 /\ _write_waiters = <<>> /\ _read_waiters = {}

\* The step that cancels a call leaves the session and the proxy settings
\* as they were, and ends the call.
C16_CancelAct ==
    \A t \in Tasks :
        (exc[t] = "" /\ exc'[t] = "CancelledError") =>
            /\ UNCHANGED <<sessVars, cfgVars>>
            /\ pc'[t] = "done"

\* C16: cancelling a translate, detect or get_languages call where it is
\* suspended (waiting for the writer lock, waiting for the reader lock,
\* awaiting the request or the response) releases every lock the call holds
\* and leaves the shared session open: the other calls complete on a live
\* session and a later change_proxy or close finds the lock free.
C16_CancellationSafe == [](C16_CancelInv) /\ [][C16_CancelAct]_vars

\* C16's case: one call was cancelled with its request in flight, a
\* change_proxy has since completed, and another call has its request in
\* flight on the new session.
C16_Witness ==
    \E t, u, w \in Tasks :
        /\ exc[t] = "CancelledError" /\ pc[t] = "done" /\ req[t].sid = 1
        /\ call[w].op = "change_proxy" /\ pc[w] = "done"
        /\ pc[u] = "inflight" /\ req[u].sid = 2 /\ _session = 2

\* C19: under fair scheduling, with every request in flight answered in the
\* end, a change_proxy or close call acquires the lock and completes even
\* when translate and detect calls keep arriving, and no call waits for the
\* lock for ever.
C19_WritersComplete ==
    \A t \in Tasks :
        /\ (call[t].op \in {"close", "change_proxy"}) ~> (pc[t] = "done")
        /\ Waits(t) ~> ~Waits(t)

\* C19's case: change_proxy waits for the lock while the request of one
\* call is in flight and another call has queued up behind it.
C19_Witness ==
    \E w, t, u \in Tasks :
        /\ call[w].op = "change_proxy" /\ pc[w] = "wait_w"
        /\ InFlight(t) /\ call[u].op \in ReaderOps /\ pc[u] = "wait_w"
        /\ _write_waiters = <<w, u>>

=============================================================================
